---- MODULE Spec2Model ----
(***************************************************************************)
(* A model of package sticker (ScheduledTicker): the caller goroutine      *)
(* (New, Reset, Stop, and the reader of C), the control loop goroutine,    *)
(* the goroutines of the one-shot timers armed with time.AfterFunc, and    *)
(* the interval timers created with time.NewTicker.                        *)
(*                                                                         *)
(* Time is an integer clock.  A time.Duration is a signed integer of       *)
(* DurBits bits (64 in Go, scaled down here): Time.Sub saturates and the   *)
(* multiplication of Durations wraps, as in Go.  Every goroutine may be    *)
(* delayed for any amount of time between two of its steps.                *)
(***************************************************************************)
EXTENDS Integers, Sequences, FiniteSets, TLC

\* ------------------------------------------------------------- bounds
\* width of a time.Duration (int64 in Go)
DurBits == 5
\* number of clock units the clock advances after the program starts
Horizon == 2
\* number of one-shot timers (accepted reset requests) in one run
MaxGen == 2
\* largest interval a caller passes
MaxInterval == 2
\* how far after the current time a caller's anchor lies
AnchorSpan == 2
\* how far before the current time the anchor of an undisturbed schedule lies
PastSpan == 2
\* number of clock units the clock advances while one schedule runs undisturbed
ScheduleHorizon == 4
\* number of clock units the clock advances in the runs under fair scheduling
FairHorizon == 1

\* ------------------------------------------------------------- time
TwoPow == 2 ^ DurBits
MaxDuration == (2 ^ (DurBits - 1)) - 1
MinDuration == -(2 ^ (DurBits - 1))
\* time.Time{}, the zero time: further in the past than MaxDuration
ZeroTime == 0
StartTime == ZeroTime + MaxDuration + 2
MaxTime == StartTime + Horizon

\* saturation of Time.Sub
Saturate(x) == IF x > MaxDuration THEN MaxDuration ELSE IF x < MinDuration THEN MinDuration ELSE x
\* two's complement wrap-around of Duration arithmetic
Wrap(x) == ((x - MinDuration) % TwoPow) + MinDuration
\* t.Sub(u)
TimeSub(t, u) == Saturate(t - u)
\* time.Since(t) and time.Until(t), evaluated when the clock shows clk
Since(t, clk) == TimeSub(clk, t)
Until(t, clk) == TimeSub(t, clk)

\* the division of Durations truncates towards zero
Quot(a, b) == IF a >= 0 THEN a \div b ELSE -((-a) \div b)

\* nextRun without its first case: the lattice computation for every anchor
nextRunNoFutureCase(firstStart, interval, clk) ==
    LET pastIterations == Quot(Since(firstStart, clk), interval)
    IN  firstStart + Wrap((pastIterations + 1) * interval)

\* nextRun(firstStart, interval), evaluated when the clock shows clk
nextRun(firstStart, interval, clk) ==
    IF clk < firstStart
    THEN firstStart
    ELSE LET pastIterations == Quot(Since(firstStart, clk), interval)
         IN  firstStart + Wrap((pastIterations + 1) * interval)

\* ------------------------------------------------------------- state
VARIABLES
    now,              \* the system clock (time.Now())
    clientPc,         \* the caller goroutine: init, newPanic, idle, resetPanic, resetSend, stopped
    sendVal,          \* the value the caller is sending on st.reset
    st,               \* the ScheduledTicker: interval and the state of its channels
    C,                \* the buffer of st.ticks (the channel C)
    loopPc,           \* the loop goroutine: none, entry, select, arm, sendTick, exit2, exit3, done
    nextTick,         \* loop variable nextTick: 0 (nil) or the ticker whose channel it is
    ticker,           \* loop variable ticker: 0 (nil) or a ticker
    resetTimer,       \* loop variable resetTimer: 0 (nil) or a one-shot timer
    nextTickUpdated,  \* loop variable nextTickUpdated: "chan" or "nil"
    ntuClosed,        \* whether the channel made for nextTickUpdated is closed
    selNextTick,      \* the value of nextTick the pending select statement evaluated
    nextStart,        \* loop variable nextStart, received from st.reset
    tickVal,          \* loop variable t, received from nextTick
    ngen,             \* the number of one-shot timers created so far
    os,               \* the one-shot timers (time.AfterFunc) and their callbacks
    tk,               \* the interval timers (time.NewTicker), one per callback
    crashed,          \* a goroutine panicked and the process ended
    cfg,              \* the anchor and the interval the newest one-shot timer was armed with,
                      \* and the interval of the call whose request the loop received last
    firstTick,        \* the first tick handed to sendTime, until the consumer's first read;
                      \* from then on the tick the consumer read last
    stale,            \* ticks of superseded timers placed on C since the last accepted reset (2: two or more)
    nr                \* the last evaluation of nextRun on its own: arguments, clock, result

vars == <<now, clientPc, sendVal, st, C, loopPc, nextTick, ticker,
          resetTimer, nextTickUpdated, ntuClosed, selNextTick, nextStart, tickVal, ngen,
          os, tk, crashed, cfg, firstTick, stale, nr>>

Gens == 1..MaxGen
\* make(chan time.Time, 1)
TicksCap == 1
\* the intervals and anchors a caller passes
Intervals == (-1)..MaxInterval
Anchors(clk) == {ZeroTime} \cup (clk..(clk + AnchorSpan))

NoTimer == [state |-> "none", when |-> 0, t |-> 0]
NoTicker == [state |-> "none", period |-> 0, next |-> 0, buf |-> <<>>]
NoCfg == [anchor |-> 0, interval |-> 0, accepted |-> 0]
NoTick == [t |-> 0, state |-> "none"]
NoRun == [anchor |-> 0, interval |-> 1, at |-> 0, result |-> 0, called |-> FALSE]

Init ==
    /\ now = StartTime
    /\ clientPc = "init"
    /\ sendVal = 0
    /\ st = [interval |-> 0, stop |-> "nil", reset |-> "nil", ticks |-> "nil"]
    /\ C = <<>>
    /\ loopPc = "none"
    /\ nextTick = 0
    /\ ticker = 0
    /\ resetTimer = 0
    /\ nextTickUpdated = "nil"
    /\ ntuClosed = FALSE
    /\ selNextTick = 0
    /\ nextStart = 0
    /\ tickVal = 0
    /\ ngen = 0
    /\ os = [g \in Gens |-> NoTimer]
    /\ tk = [g \in Gens |-> NoTicker]
    /\ crashed = FALSE
    /\ cfg = NoCfg
    /\ firstTick = NoTick
    /\ stale = 0
    /\ nr = NoRun

\* ------------------------------------------------------------- the clock
Advance(limit) ==
    /\ ~crashed
    /\ now < limit
    /\ now' = now + 1
    /\ UNCHANGED <<clientPc, sendVal, st, C, loopPc, nextTick, ticker,
                   resetTimer, nextTickUpdated, ntuClosed, selNextTick, nextStart, tickVal,
                   ngen, os, tk, crashed, cfg, firstTick, stale, nr>>

Tick == Advance(MaxTime)

\* ------------------------------------------------------------- the caller
\* a check that lets the zero interval pass
ValidIntervalOrZero(interval) == interval >= 0

\* the check of New and of Reset: interval <= 0 panics
ValidInterval(interval) == interval > 0

\* panic(errors.New(...)): the call ends in a panic and has done nothing else
Panic(pc) ==
    /\ clientPc' = pc
    /\ UNCHANGED <<now, sendVal, st, C, loopPc, nextTick, ticker, resetTimer,
                   nextTickUpdated, ntuClosed, selNextTick, nextStart, tickVal, ngen, os, tk,
                   crashed, cfg, firstTick, stale, nr>>

\* the caller recovers from the panic, as the tests do
Recover ==
    /\ ~crashed
    /\ clientPc \in {"newPanic", "resetPanic"}
    /\ clientPc' = IF clientPc = "newPanic" THEN "init" ELSE "idle"
    /\ UNCHANGED <<now, sendVal, st, C, loopPc, nextTick, ticker, resetTimer,
                   nextTickUpdated, ntuClosed, selNextTick, nextStart, tickVal, ngen, os, tk,
                   crashed, cfg, firstTick, stale, nr>>

\* New(first, interval): make the channels, start the loop (which makes the channel
\* nextTickUpdated and reaches its select statement), call Reset
New(first, interval) ==
    /\ ~crashed
    /\ clientPc = "init"
    /\ IF ~ValidInterval(interval)
       THEN Panic("newPanic")
       ELSE /\ st' = [interval |-> interval, stop |-> "open", reset |-> "open", ticks |-> "open"]
            /\ loopPc' = "entry"
            /\ nextTickUpdated' = "chan"
            /\ clientPc' = "resetSend"
            /\ sendVal' = first
            /\ UNCHANGED <<now, C, nextTick, ticker, resetTimer,
                           ntuClosed, selNextTick, nextStart, tickVal, ngen, os, tk, crashed, cfg,
                           firstTick, stale, nr>>

\* the one-shot timers created so far, with the one the loop is about to create
Requested == ngen + (IF loopPc = "arm" THEN 1 ELSE 0)

\* Reset(next, interval): store the interval, then send next on st.reset
Reset(next, interval) ==
    /\ ~crashed
    /\ clientPc = "idle"
    /\ Requested < MaxGen
    /\ IF ~ValidInterval(interval)
       THEN Panic("resetPanic")
       ELSE /\ st' = [st EXCEPT !.interval = interval]
            /\ clientPc' = "resetSend"
            /\ sendVal' = next
            /\ UNCHANGED <<now, C, loopPc, nextTick, ticker, resetTimer,
                           nextTickUpdated, ntuClosed, selNextTick, nextStart, tickVal,
                           ngen, os, tk, crashed, cfg, firstTick, stale, nr>>

\* a Stop that closes the output channel as well
ClosedWithTicks == [st EXCEPT !.stop = "closed", !.reset = "closed", !.ticks = "closed"]

\* what Stop closes: close(st.stop), close(st.reset)
Closed == [st EXCEPT !.stop = "closed", !.reset = "closed"]

\* Stop()
Stop ==
    /\ ~crashed
    /\ clientPc = "idle"
    /\ st' = Closed
    /\ clientPc' = "stopped"
    /\ UNCHANGED <<now, sendVal, C, loopPc, nextTick, ticker, resetTimer,
                   nextTickUpdated, ntuClosed, selNextTick, nextStart, tickVal, ngen, os, tk,
                   crashed, cfg, firstTick, stale, nr>>

\* the record of a read: the tick the consumer received
ReadTick(tick) == [t |-> tick, state |-> "read"]

\* <-ticker.C by the consumer
ReadC ==
    /\ ~crashed
    /\ C # <<>>
    /\ C' = Tail(C)
    /\ firstTick' = ReadTick(Head(C))
    /\ UNCHANGED <<now, clientPc, sendVal, st, loopPc, nextTick, ticker, resetTimer,
                   nextTickUpdated, ntuClosed, selNextTick, nextStart, tickVal, ngen, os, tk,
                   crashed, cfg, stale, nr>>

\* ------------------------------------------------------------- delivery
\* a sendTime that replaces the held tick when the buffer is full
sendTimeOverwrite(ticks, tick) == IF Len(ticks) < TicksCap THEN Append(ticks, tick) ELSE <<tick>>

\* sendTime(ticks, tick): a send that is dropped when the buffer is full
sendTime(ticks, tick) == IF Len(ticks) < TicksCap THEN Append(ticks, tick) ELSE ticks

\* the one-shot timer g has fired: its callback was started
Fired(g) == os[g].state \notin {"none", "armed", "stopped"}

\* sendTime(st.ticks, tick) of a tick that the one-shot timer gen or its ticker produced,
\* with the record of what was delivered
Deliver(tick, gen) ==
    /\ C' = sendTime(C, tick)
    /\ firstTick' = IF firstTick.state = "none" THEN [t |-> tick, state |-> "held"] ELSE firstTick
    /\ stale' = IF C' # C /\ gen < ngen THEN (IF stale < 2 THEN stale + 1 ELSE 2) ELSE stale

\* ------------------------------------------------------------- the loop
\* the select statement evaluates its channel operands once, on entry
LoopSelectEntry ==
    /\ ~crashed
    /\ loopPc = "entry"
    /\ selNextTick' = nextTick
    /\ loopPc' = "select"
    /\ UNCHANGED <<now, clientPc, sendVal, st, C, nextTick, ticker,
                   resetTimer, nextTickUpdated, ntuClosed, nextStart, tickVal, ngen, os, tk,
                   crashed, cfg, firstTick, stale, nr>>

\* case nextStart := <-st.reset, from the caller blocked in Reset
LoopRecvReset ==
    /\ ~crashed
    /\ loopPc = "select"
    /\ st.reset = "open"
    /\ clientPc = "resetSend"
    /\ nextStart' = sendVal
    /\ sendVal' = 0
    /\ clientPc' = "idle"
    /\ loopPc' = "arm"
    /\ selNextTick' = 0
    /\ cfg' = [cfg EXCEPT !.accepted = st.interval]
    /\ UNCHANGED <<now, st, C, nextTick, ticker, resetTimer,
                   nextTickUpdated, ntuClosed, tickVal, ngen, os, tk, crashed,
                   firstTick, stale, nr>>

\* case nextStart := <-st.reset, on the closed channel: the zero time
LoopRecvClosed ==
    /\ ~crashed
    /\ loopPc = "select"
    /\ st.reset = "closed"
    /\ ngen < MaxGen
    /\ nextStart' = ZeroTime
    /\ loopPc' = "arm"
    /\ selNextTick' = 0
    /\ cfg' = [cfg EXCEPT !.accepted = st.interval]
    /\ UNCHANGED <<now, clientPc, sendVal, st, C, nextTick, ticker,
                   resetTimer, nextTickUpdated, ntuClosed, tickVal, ngen, os, tk, crashed,
                   firstTick, stale, nr>>

\* stopTickerTimer: resetTimer.Stop() and ticker.Stop()
StoppedTimers == IF resetTimer # 0 /\ os[resetTimer].state = "armed"
                 THEN [os EXCEPT ![resetTimer] = [state |-> "stopped", when |-> 0, t |-> 0]]
                 ELSE os
StoppedTickers == IF ticker # 0
                  THEN [tk EXCEPT ![ticker].state = "stopped", ![ticker].next = 0]
                  ELSE tk

\* a one-shot timer armed without any delay
ArmedAtOnce(anchor, interval, clk) == clk

\* time.AfterFunc(time.Until(nextRun(nextStart, st.interval)), ...): the time it fires
ArmedFor(anchor, interval, clk) == clk + Until(nextRun(anchor, interval, clk), clk)

\* case <-st.stop: return, and the deferred stopTickerTimer() runs
LoopStop ==
    /\ ~crashed
    /\ loopPc = "select"
    /\ st.stop = "closed"
    /\ nextTick' = 0
    /\ ticker' = 0
    /\ resetTimer' = 0
    /\ os' = StoppedTimers
    /\ tk' = StoppedTickers
    /\ selNextTick' = 0
    /\ loopPc' = "exit2"
    /\ UNCHANGED <<now, clientPc, sendVal, st, C, nextTickUpdated, ntuClosed,
                   nextStart, tickVal, ngen, crashed, cfg, firstTick, stale, nr>>

\* the reset case: stopTickerTimer(), then resetTimer = time.AfterFunc(...)
LoopArm ==
    /\ ~crashed
    /\ loopPc = "arm"
    /\ ngen' = ngen + 1
    /\ nextTick' = 0
    /\ ticker' = 0
    /\ tk' = StoppedTickers
    /\ os' = [StoppedTimers EXCEPT ![ngen + 1] =
                 [state |-> "armed", when |-> ArmedFor(nextStart, st.interval, now), t |-> 0]]
    /\ resetTimer' = ngen + 1
    /\ cfg' = [anchor |-> nextStart, interval |-> st.interval, accepted |-> cfg.accepted]
    /\ stale' = 0
    /\ nextStart' = 0
    /\ loopPc' = "entry"
    /\ UNCHANGED <<now, clientPc, sendVal, st, C, nextTickUpdated,
                   ntuClosed, selNextTick, tickVal, crashed, firstTick, nr>>

\* case <-nextTickUpdated, from the callback of timer g blocked in its send
LoopRecvNtu(g) ==
    /\ ~crashed
    /\ loopPc = "select"
    /\ os[g].state = "ntuSend"
    /\ ~ntuClosed
    /\ os' = [os EXCEPT ![g].state = "done"]
    /\ loopPc' = "entry"
    /\ selNextTick' = 0
    /\ UNCHANGED <<now, clientPc, sendVal, st, C, nextTick, ticker,
                   resetTimer, nextTickUpdated, ntuClosed, nextStart, tickVal, ngen, tk,
                   crashed, cfg, firstTick, stale, nr>>

\* case t := <-nextTick, on the channel the select evaluated
LoopRecvTick ==
    /\ ~crashed
    /\ loopPc = "select"
    /\ selNextTick # 0
    /\ tk[selNextTick].buf # <<>>
    /\ tickVal' = Head(tk[selNextTick].buf)
    /\ tk' = [tk EXCEPT ![selNextTick].buf = <<>>]
    /\ loopPc' = "sendTick"
    /\ UNCHANGED <<now, clientPc, sendVal, st, C, nextTick, ticker,
                   resetTimer, nextTickUpdated, ntuClosed, selNextTick, nextStart, ngen, os,
                   crashed, cfg, firstTick, stale, nr>>

\* sendTime(st.ticks, t)
LoopSendTick ==
    /\ ~crashed
    /\ loopPc = "sendTick"
    /\ Deliver(tickVal, selNextTick)
    /\ tickVal' = 0
    /\ selNextTick' = 0
    /\ loopPc' = "entry"
    /\ UNCHANGED <<now, clientPc, sendVal, st, nextTick, ticker,
                   resetTimer, nextTickUpdated, ntuClosed, nextStart, ngen, os, tk, crashed,
                   cfg, nr>>

\* the second deferred call: ntu, nextTickUpdated = nextTickUpdated, nil
LoopExit2 ==
    /\ ~crashed
    /\ loopPc = "exit2"
    /\ nextTickUpdated' = "nil"
    /\ loopPc' = "exit3"
    /\ UNCHANGED <<now, clientPc, sendVal, st, C, nextTick, ticker,
                   resetTimer, ntuClosed, selNextTick, nextStart, tickVal, ngen, os, tk,
                   crashed, cfg, firstTick, stale, nr>>

\* then close(ntu)
LoopExit3 ==
    /\ ~crashed
    /\ loopPc = "exit3"
    /\ ntuClosed' = TRUE
    /\ loopPc' = "done"
    /\ UNCHANGED <<now, clientPc, sendVal, st, C, nextTick, ticker,
                   resetTimer, nextTickUpdated, selNextTick, nextStart, tickVal, ngen, os, tk,
                   crashed, cfg, firstTick, stale, nr>>

\* ------------------------------------------------------------- the one-shot callback
\* select { case <-st.stop: return; default: }
StopSeen == st.stop = "closed"

\* the runtime starts the callback of timer g once its time has come; the callback
\* returns if it finds st.stop closed, and reads the clock for its tick otherwise
TimerFire(g) ==
    /\ ~crashed
    /\ os[g].state = "armed"
    /\ os[g].when <= now
    /\ os' = [os EXCEPT ![g] = IF StopSeen
                               THEN [state |-> "done", when |-> 0, t |-> 0]
                               ELSE [state |-> "send", when |-> 0, t |-> now]]
    /\ UNCHANGED <<now, clientPc, sendVal, st, C, loopPc, nextTick,
                   ticker, resetTimer, nextTickUpdated, ntuClosed, selNextTick, nextStart,
                   tickVal, ngen, tk, crashed, cfg, firstTick, stale, nr>>

\* sendTime(st.ticks, time.Now())
CbSend(g) ==
    /\ ~crashed
    /\ os[g].state = "send"
    /\ Deliver(os[g].t, g)
    /\ os' = [os EXCEPT ![g].state = "newTicker", ![g].t = 0]
    /\ UNCHANGED <<now, clientPc, sendVal, st, loopPc, nextTick, ticker,
                   resetTimer, nextTickUpdated, ntuClosed, selNextTick, nextStart, tickVal,
                   ngen, tk, crashed, cfg, nr>>

\* the period of the interval timer the callback creates
TickerPeriod == st.interval

\* ticker = time.NewTicker(st.interval)
CbNewTicker(g) ==
    /\ ~crashed
    /\ os[g].state = "newTicker"
    /\ tk' = [tk EXCEPT ![g] = [state |-> "alive", period |-> TickerPeriod,
                                next |-> now + TickerPeriod, buf |-> <<>>]]
    /\ ticker' = g
    /\ os' = [os EXCEPT ![g].state = "setNextTick"]
    /\ UNCHANGED <<now, clientPc, sendVal, st, C, loopPc, nextTick,
                   resetTimer, nextTickUpdated, ntuClosed, selNextTick, nextStart, tickVal,
                   ngen, crashed, cfg, firstTick, stale, nr>>

\* nextTick = ticker.C: the callback reads the variable ticker, which the loop writes
\* without synchronisation; it sees the value it stored itself or the current one, and
\* dereferencing nil panics
CbSetNextTick(g) ==
    /\ ~crashed
    /\ os[g].state = "setNextTick"
    /\ \E v \in {g, ticker} :
          IF v = 0
          THEN /\ crashed' = TRUE
               /\ UNCHANGED <<nextTick, os>>
          ELSE /\ nextTick' = v
               /\ os' = [os EXCEPT ![g].state = "ntuCheck"]
               /\ UNCHANGED crashed
    /\ UNCHANGED <<now, clientPc, sendVal, st, C, loopPc, ticker,
                   resetTimer, nextTickUpdated, ntuClosed, selNextTick, nextStart, tickVal,
                   ngen, tk, cfg, firstTick, stale, nr>>

\* if nextTickUpdated != nil
CbNtuCheck(g) ==
    /\ ~crashed
    /\ os[g].state = "ntuCheck"
    /\ os' = [os EXCEPT ![g].state = IF nextTickUpdated = "nil" THEN "done" ELSE "ntuRead"]
    /\ UNCHANGED <<now, clientPc, sendVal, st, C, loopPc, nextTick,
                   ticker, resetTimer, nextTickUpdated, ntuClosed, selNextTick, nextStart,
                   tickVal, ngen, tk, crashed, cfg, firstTick, stale, nr>>

\* nextTickUpdated <- struct{}{}: the operand is read again; a send on a nil channel
\* blocks for ever
CbNtuRead(g) ==
    /\ ~crashed
    /\ os[g].state = "ntuRead"
    /\ os' = [os EXCEPT ![g].state = IF nextTickUpdated = "nil" THEN "blocked" ELSE "ntuSend"]
    /\ UNCHANGED <<now, clientPc, sendVal, st, C, loopPc, nextTick,
                   ticker, resetTimer, nextTickUpdated, ntuClosed, selNextTick, nextStart,
                   tickVal, ngen, tk, crashed, cfg, firstTick, stale, nr>>

\* a send on a closed channel panics (also when the channel is closed under the sender)
CbNtuPanic(g) ==
    /\ ~crashed
    /\ os[g].state = "ntuSend"
    /\ ntuClosed
    /\ crashed' = TRUE
    /\ UNCHANGED <<now, clientPc, sendVal, st, C, loopPc, nextTick,
                   ticker, resetTimer, nextTickUpdated, ntuClosed, selNextTick, nextStart,
                   tickVal, ngen, os, tk, cfg, firstTick, stale, nr>>

\* ------------------------------------------------------------- the interval timer
\* the runtime's next time for a ticker that fired at clk: when += period * (1 + delta/period)
NextFire(next, period, clk) == next + period * (1 + ((clk - next) \div period))

\* the runtime sends the current time on the ticker's channel (buffer of one, dropped when full)
TickerFire(g) ==
    /\ ~crashed
    /\ tk[g].state = "alive"
    /\ tk[g].next <= now
    /\ tk' = [tk EXCEPT ![g].buf = IF tk[g].buf = <<>> THEN <<now>> ELSE tk[g].buf,
                        ![g].next = NextFire(tk[g].next, tk[g].period, now)]
    /\ UNCHANGED <<now, clientPc, sendVal, st, C, loopPc, nextTick,
                   ticker, resetTimer, nextTickUpdated, ntuClosed, selNextTick, nextStart,
                   tickVal, ngen, os, crashed, cfg, firstTick, stale, nr>>

\* ------------------------------------------------------------- the program
\* every step but those of the clock
Program ==
    \/ \E a \in Anchors(now), i \in Intervals : New(a, i)
    \/ \E a \in Anchors(now), i \in Intervals : Reset(a, i)
    \/ Stop
    \/ Recover
    \/ ReadC
    \/ LoopSelectEntry
    \/ LoopStop
    \/ LoopRecvReset
    \/ LoopRecvClosed
    \/ LoopArm
    \/ \E g \in Gens : LoopRecvNtu(g)
    \/ LoopRecvTick
    \/ LoopSendTick
    \/ LoopExit2
    \/ LoopExit3
    \/ \E g \in Gens : TimerFire(g)
    \/ \E g \in Gens : CbSend(g)
    \/ \E g \in Gens : CbNewTicker(g)
    \/ \E g \in Gens : CbSetNextTick(g)
    \/ \E g \in Gens : CbNtuCheck(g)
    \/ \E g \in Gens : CbNtuRead(g)
    \/ \E g \in Gens : CbNtuPanic(g)
    \/ \E g \in Gens : TickerFire(g)

Next == Tick \/ Program

Spec == Init /\ [][Next]_vars

\* ------------------------------------------------------------- the program under fair scheduling
\* every goroutine that can take a step takes it, and a select statement that is entered
\* again and again with a case ready takes that case (Go chooses among ready cases at random)
LoopFairness ==
    /\ WF_vars(LoopSelectEntry)
    /\ WF_vars(LoopArm)
    /\ WF_vars(LoopSendTick)
    /\ WF_vars(LoopExit2)
    /\ WF_vars(LoopExit3)
    /\ SF_vars(LoopStop)
    /\ SF_vars(LoopRecvReset)
    /\ SF_vars(LoopRecvTick)
    /\ \A g \in Gens : SF_vars(LoopRecvNtu(g))

CallbackFairness ==
    \A g \in Gens :
        /\ WF_vars(TimerFire(g))
        /\ WF_vars(CbSend(g))
        /\ WF_vars(CbNewTicker(g))
        /\ WF_vars(CbSetNextTick(g))
        /\ WF_vars(CbNtuCheck(g))
        /\ WF_vars(CbNtuRead(g))
        /\ WF_vars(CbNtuPanic(g))
        /\ WF_vars(TickerFire(g))

TickFair == Advance(StartTime + FairHorizon)

NextFair == TickFair \/ Program

FairSpec == Init /\ [][NextFair]_vars /\ LoopFairness /\ CallbackFairness

\* ------------------------------------------------------------- one schedule, left alone
\* the anchors of a schedule that is created once and neither reconfigured nor stopped
ScheduleAnchors(clk) == {ZeroTime} \cup ((clk - PastSpan)..(clk + AnchorSpan))

TickSchedule == Advance(StartTime + ScheduleHorizon)

NextSchedule ==
    \/ TickSchedule
    \/ \E a \in ScheduleAnchors(now), i \in 1..MaxInterval : New(a, i)
    \/ ReadC
    \/ LoopSelectEntry
    \/ LoopRecvReset
    \/ LoopArm
    \/ \E g \in Gens : LoopRecvNtu(g)
    \/ LoopRecvTick
    \/ LoopSendTick
    \/ \E g \in Gens : TimerFire(g)
    \/ \E g \in Gens : CbSend(g)
    \/ \E g \in Gens : CbNewTicker(g)
    \/ \E g \in Gens : CbSetNextTick(g)
    \/ \E g \in Gens : CbNtuCheck(g)
    \/ \E g \in Gens : CbNtuRead(g)
    \/ \E g \in Gens : TickerFire(g)

SpecSchedule == Init /\ [][NextSchedule]_vars

\* ------------------------------------------------------------- nextRun on its own
\* the anchors nextRun is evaluated with: the zero time, and the times from MaxDuration
\* before the current time to AnchorSpan after it
RunAnchors(clk) == {ZeroTime} \cup ((clk - MaxDuration)..(clk + AnchorSpan))

\* one evaluation of nextRun(firstStart, interval), with its arguments and the clock
EvalNextRun(firstStart, interval) ==
    /\ nr' = [anchor |-> firstStart, interval |-> interval, at |-> now,
              result |-> nextRun(firstStart, interval, now), called |-> TRUE]
    /\ UNCHANGED <<now, clientPc, sendVal, st, C, loopPc, nextTick, ticker, resetTimer,
                   nextTickUpdated, ntuClosed, selNextTick, nextStart, tickVal, ngen, os, tk,
                   crashed, cfg, firstTick, stale>>

NextNextRun ==
    \/ Tick
    \/ \E a \in RunAnchors(now), i \in 1..MaxInterval : EvalNextRun(a, i)

SpecNextRun == Init /\ [][NextNextRun]_vars

\* ------------------------------------------------------------- the properties
\* a step that places a tick on C (case ticks <- tick of sendTime)
TickPlaced == C' # C /\ Len(C') >= Len(C)

\* a step in which the callback of the one-shot timer g, or the loop with a tick of the
\* interval timer that callback created, places a tick on C
PlacedBy(g) ==
    /\ TickPlaced
    /\ \/ os[g].state = "send" /\ os'[g].state = "newTicker"
       \/ loopPc = "sendTick" /\ loopPc' = "entry" /\ selNextTick = g

\* C1: once Stop has been called, no step places a tick on C, whatever the loop, the
\* one-shot callbacks and the interval timers were doing when Stop was called
C1_NoTickAfterStop == [][st.stop = "closed" => ~TickPlaced]_vars

C3_LoopNeverStalls ==
    /\ (clientPc = "resetSend") ~> (clientPc = "idle")
    /\ (st.stop = "closed") ~> (loopPc = "done")

\* C4: a call of New or Reset that goes on to send its request has stored an interval
\* > 0, and a call that panics changes nothing else: after New there is no loop and no
\* channel, after Reset the interval, the channels, the timers and C are as before
C4_NonPositiveIntervalPanics ==
    [][ /\ (clientPc \in {"init", "idle"} /\ clientPc' = "resetSend" => st'.interval > 0)
        /\ (clientPc' \in {"newPanic", "resetPanic"} /\ clientPc' # clientPc =>
               /\ UNCHANGED <<now, sendVal, st, C, loopPc, nextTick, ticker, resetTimer,
                              nextTickUpdated, ntuClosed, selNextTick, nextStart, tickVal,
                              ngen, os, tk, crashed, cfg, firstTick, stale, nr>>
               /\ (clientPc' = "newPanic" => loopPc = "none" /\ st.ticks = "nil")
               /\ (clientPc' = "resetPanic" => clientPc = "idle")) ]_vars

\* C4 witness: a Reset has panicked while the one-shot timer of the schedule is armed
C4_Witness == clientPc = "resetPanic" /\ ngen = 1 /\ os[1].state = "armed" /\ st.interval > 0

\* C5: nextRun with an anchor after the current time returns the anchor
C5_FutureAnchorReturned == nr.called /\ nr.at < nr.anchor => nr.result = nr.anchor

\* C5 witness: nextRun was evaluated with an anchor after the current time
C5_Witness == nr.called /\ nr.at < nr.anchor /\ nr.interval > 1 /\ nr.result = nr.anchor

\* C6: nextRun with an anchor before the current time returns a time r after the current
\* time, less than one interval after it, with r - anchor a multiple >= 0 of the interval
C6_PastAnchorNextLatticePoint ==
    nr.called /\ nr.anchor < nr.at =>
        /\ nr.result > nr.at
        /\ nr.result - nr.at < nr.interval
        /\ nr.result >= nr.anchor
        /\ (nr.result - nr.anchor) % nr.interval = 0

\* C7: while the ticker is not stopped and the anchor of the newest configuration lies in
\* the future, at most one tick of a superseded one-shot timer or of its interval timer
\* is placed on C after the loop has re-armed for the Reset
C7_AtMostOneStaleTick == st.stop = "open" /\ cfg.anchor > now => stale <= 1

\* C8: while the ticker is not stopped, a Reset the loop handles leaves it pending (it
\* listens to no interval timer, the new one-shot timer is armed); once the newest
\* one-shot timer has fired, no superseded timer places a tick on C and the loop's
\* nextTick is only ever set to the interval timer of the newest callback
C8_NewestConfigurationOwnsOutput ==
    [][ st.stop = "open" =>
          /\ (loopPc = "arm" /\ loopPc' = "entry" =>
                 nextTick' = 0 /\ os'[ngen'].state = "armed")
          /\ (ngen > 0 /\ Fired(ngen) =>
                 /\ \A g \in Gens : g < ngen => ~PlacedBy(g)
                 /\ (nextTick' # nextTick /\ nextTick' # 0 => nextTick' = ngen)) ]_vars

\* C9: the channel C is never closed: it is open from New on, also after Stop and after
\* the loop has exited
C9_OutputNeverClosed == st.ticks # "closed" /\ (loopPc # "none" => st.ticks = "open")

\* C9 witness: Stop was called, the loop has exited, C is open
C9_Witness == st.stop = "closed" /\ loopPc = "done" /\ st.ticks = "open"

\* C10: under one configuration that is neither reconfigured nor stopped, the one-shot
\* timer and the interval timer are due at lattice points anchor + k * interval
C10_TicksOnAnchorLattice ==
    \A g \in Gens :
        /\ os[g].state = "armed" =>
               os[g].when >= cfg.anchor /\ (os[g].when - cfg.anchor) % cfg.interval = 0
        /\ tk[g].state = "alive" =>
               tk[g].next >= cfg.anchor /\ (tk[g].next - cfg.anchor) % cfg.interval = 0

\* C11: a tick of the newest configuration is placed on C no earlier than its anchor
\* and is stamped with a time at or after the anchor (the time the callback read, or
\* the time the interval timer fired)
C11_NoTickBeforeAnchor ==
    [][ngen > 0 /\ PlacedBy(ngen) => now >= cfg.anchor /\ Head(C') >= cfg.anchor]_vars

\* C11 witness: the only configuration has an anchor after the start, and the tick of
\* its one-shot callback, stamped with the anchor time itself, is on C: the timer
\* fired exactly at an anchor that was in the future when it was armed
C11_Witness ==
    /\ ngen = 1
    /\ cfg.anchor > StartTime
    /\ os[1].state = "newTicker"
    /\ C = <<cfg.anchor>>

\* the one-shot timers that are armed and the interval timers that are running
AliveTimers == {g \in Gens : os[g].state = "armed"}
AliveTickers == {g \in Gens : tk[g].state = "alive"}

\* C12: at most one one-shot timer is armed and at most one interval timer is running
C12_AtMostOneTimerAlive == Cardinality(AliveTimers) <= 1 /\ Cardinality(AliveTickers) <= 1

\* C13: once the loop has exited because of Stop, no one-shot timer is armed and no
\* interval timer is running
C13_NoTimerAliveAfterExit ==
    st.stop = "closed" /\ loopPc = "done" => AliveTimers = {} /\ AliveTickers = {}

\* a step of the loop goroutine (every step of the loop moves its position)
LoopStep == loopPc' # loopPc

\* C14: once the loop runs, the stored interval and the loop's handles ticker, nextTick
\* and resetTimer change only in steps of the loop
C14_SingleWriter ==
    [][ /\ loopPc # "none"
        /\ \/ st'.interval # st.interval
           \/ ticker' # ticker
           \/ nextTick' # nextTick
           \/ resetTimer' # resetTimer
        => LoopStep ]_vars

\* C15: every timer is armed with the interval of the call whose anchor it uses: the
\* loop computes the delay of the newest one-shot timer with the interval passed
\* together with its anchor, and the interval timer of the newest callback has that
\* interval as its period
C15_AnchorAndIntervalOfOneCall ==
    ngen > 0 /\ loopPc # "arm" /\ st.stop = "open" =>
        /\ cfg.interval = cfg.accepted
        /\ tk[ngen].state # "none" => tk[ngen].period = cfg.accepted

\* C16: under fair scheduling, once Stop has returned (it closes both channels in one
\* step and never blocks), the loop reaches its end, whether a one-shot timer was
\* pending or an interval timer was running when Stop was called
C16_StopEndsLoop == (clientPc = "stopped") ~> (loopPc = "done")

\* C17: after Stop the loop serves no request: no select of the loop takes the case of
\* st.reset, so the closed channel is never read as a request with the zero anchor and
\* nothing is cancelled or armed for it
C17_NoReconfigureAfterStop ==
    [][st.stop = "closed" => ~(loopPc = "select" /\ loopPc' = "arm")]_vars

\* C18: under fair scheduling, when the one-shot timer of the newest configuration has
\* fired with the ticker not stopped, its callback runs to its end (it delivers its
\* tick, creates the interval timer and hands it to the loop through nextTickUpdated)
\* unless Stop is called meanwhile, and a tick the loop has taken from the interval
\* timer it waits on is passed to sendTime
C18_HandoffCompletes ==
    /\ \A g \in Gens :
          (g = ngen /\ os[g].state = "send") ~> (os[g].state = "done" \/ st.stop = "closed")
    /\ (loopPc = "sendTick") ~> (loopPc = "entry")

\* C19: the consumer reads the ticks in the order of their time stamps: a tick read
\* from C is stamped no earlier than the tick read before it
C19_ReadsNonDecreasing ==
    [][firstTick.state = "read" /\ firstTick'.state = "read" /\ firstTick' # firstTick
          => firstTick'.t >= firstTick.t]_vars

\* C20: nextRun evaluated at a time on the lattice of its anchor (the time since the
\* anchor is a multiple of the interval, the anchor itself included) returns the
\* current time plus one interval
C20_OnLatticeNextPoint ==
    nr.called /\ nr.anchor <= nr.at /\ (nr.at - nr.anchor) % nr.interval = 0 =>
        nr.result = nr.at + nr.interval

\* C21: no one-shot callback is stuck in or killed by its send on nextTickUpdated: none
\* is sending on the channel once the exiting loop has closed it (the send panics) and
\* none is blocked in a send on the nil channel
C21_CallbackNeverStuck ==
    \A g \in Gens :
        /\ ~(os[g].state = "ntuSend" /\ ntuClosed)
        /\ os[g].state # "blocked"

\* C22: in nextRun with an anchor at or before the current time, time.Since does not
\* saturate, the product (pastIterations + 1) * interval does not leave the range of a
\* Duration, and the result is after the current time
C22_NoDurationOverflow ==
    nr.called /\ nr.anchor <= nr.at =>
        /\ Since(nr.anchor, nr.at) = nr.at - nr.anchor
        /\ LET product == (Quot(Since(nr.anchor, nr.at), nr.interval) + 1) * nr.interval
           IN  Wrap(product) = product
        /\ nr.result > nr.at

====
